---- MODULE Spec2Model ----
(***************************************************************************)
(* A model of gallery-desktop: the indexed container reader (file.rs), the *)
(* viewer's two-level navigation state machine and its frames (viewer.rs), *)
(* the selector's grid and render pass (selector.rs), and the dispatch of  *)
(* keys and mouse buttons to the two screens (main.rs).                    *)
(*                                                                         *)
(* Program indices are 0-based as in the Rust source; TLA+ sequences are   *)
(* 1-based, so element i of a Vec v is v[i + 1].                           *)
(***************************************************************************)
EXTENDS Integers, Sequences, FiniteSets, TLC

(***************************************************************************)
(* Bounds of the model.                                                    *)
(***************************************************************************)
\* Most paths handed to the viewer (Spec), and in a traversal (SpecForward,
\* SpecBackward).
MaxPaths == 2
MaxTraversalPaths == 3
\* Most entries of a container of the navigation specifications.
MaxLen == 3
\* Most entries, and most bytes per entry, of a container of SpecFile.
MaxEntries == 2
MaxEntrySize == 2
\* Width in bits of the modelled usize (64 in the program's usual targets).
UsizeBits == 4
\* Calls made past the end of a traversal (SpecForward, SpecBackward).
MaxExtra == 2
\* Most entries of the selector's grid (SpecSelector).
MaxOfcs == 13
\* Most clicks that fall on an entry in one run of the selector.
MaxClicks == 2
\* The viewports clicked in are NUM_COLUMNS + d by NUM_ROWS + d pixels,
\* d in 0..MaxStretch.
MaxStretch == 1
\* Most entries of a grid whose covers are of every kind (SpecRender).
MaxCovers == 3
\* Most render passes of the selector in one run (SpecRender).
MaxFrames == 2

(***************************************************************************)
(* Integer helpers.                                                        *)
(***************************************************************************)
RECURSIVE Pow2(_)
Pow2(n) == IF n = 0 THEN 1 ELSE 2 * Pow2(n - 1)

UsizeModulus == Pow2(UsizeBits)
UsizeMax == UsizeModulus - 1

Min(a, b) == IF a < b THEN a ELSE b

\* Values at or above this are only known to be "beyond any file of the model".
Saturated == Pow2(24)

\* uN::from_le_bytes.  Exact below 2^24; a value with a non-zero byte at
\* index 3 or higher saturates (every file of the model is far shorter).
from_le_bytes(bs) ==
  IF \A i \in 4..Len(bs) : bs[i] = 0
  THEN bs[1] + 256 * bs[2] + 65536 * bs[3]
  ELSE Saturated

\* The n little-endian bytes of v (the layout from_le_bytes reads back).
RECURSIVE to_le_bytes(_, _)
to_le_bytes(v, n) ==
  IF n = 0 THEN <<>> ELSE <<v % 256>> \o to_le_bytes(v \div 256, n - 1)

RECURSIVE Sum(_)
Sum(s) == IF s = <<>> THEN 0 ELSE s[1] + Sum(Tail(s))

RECURSIVE Flatten(_)
Flatten(ss) == IF ss = <<>> THEN <<>> ELSE ss[1] \o Flatten(Tail(ss))

(***************************************************************************)
(* Container files.                                                        *)
(***************************************************************************)
\* b"ofc\0"
MAGIC == <<111, 102, 99, 0>>

\* A file of the file system: present or not, and its bytes.
File(bytes) == [exists |-> TRUE, bytes |-> bytes]
NoSuchFile == [exists |-> FALSE, bytes |-> <<>>]

\* The entries of a container built with the given entry sizes: the payload's
\* bytes are numbered 1, 2, 3, ... so that no two entries hold the same bytes.
Entries(sizes) ==
  [i \in 1..Len(sizes) |->
     [k \in 1..sizes[i] |-> Sum(SubSeq(sizes, 1, i - 1)) + k]]

\* The cumulative end-offsets table of the given entry sizes.
EndOffsets(sizes) == [i \in 1..Len(sizes) |-> Sum(SubSeq(sizes, 1, i))]

\* The bytes of a container file: magic, entry count (u32 LE), the table of
\* cumulative end-offsets (u64 LE each), then the entries concatenated.
BuildFile(sizes) ==
  MAGIC
    \o to_le_bytes(Len(sizes), 4)
    \o Flatten([i \in 1..Len(sizes) |-> to_le_bytes(EndOffsets(sizes)[i], 8)])
    \o Flatten(Entries(sizes))

\* Read::read_exact on a file at cursor pos: n bytes, or failure on a short
\* read (an empty buffer is filled at any cursor).
read_exact(bytes, pos, n) ==
  IF n = 0 THEN [ok |-> TRUE, buf |-> <<>>, pos |-> pos]
  ELSE IF pos + n <= Len(bytes)
  THEN [ok |-> TRUE, buf |-> SubSeq(bytes, pos + 1, pos + n), pos |-> pos + n]
  ELSE [ok |-> FALSE, buf |-> <<>>, pos |-> pos]

\* The value of a FileContainer: which path its handle is open on, the
\* handle's cursor, and the parsed table.
FileContainer(p, pos, offs) == [path |-> p, pos |-> pos, end_offsets |-> offs]
NoContainer == FileContainer(0, 0, <<>>)

\* FileContainer::len
len(c) == Len(c.end_offsets)

\* The 8-byte chunks of the offsets buffer, decoded (chunks_exact(8)).
DecodeOffsets(buf, n) ==
  [i \in 1..n |-> from_le_bytes(SubSeq(buf, 8 * (i - 1) + 1, 8 * i))]

\* The magic check of FileContainer::open: assert_eq!(&buf[..4], b"ofc\0").
MagicOk_ThreeBytes(buf) == SubSeq(buf, 1, 3) = SubSeq(MAGIC, 1, 3)
MagicOk(buf) == SubSeq(buf, 1, 4) = MAGIC

\* FileContainer::open on path p whose file is f: [ok, file].  Every unwrap
\* and the assert_eq! are the failure outcome (ok = FALSE: the call panics).
open(p, f) ==
  IF ~f.exists THEN [ok |-> FALSE, file |-> NoContainer]
  ELSE
    LET head == read_exact(f.bytes, 0, 8) IN
    IF ~head.ok THEN [ok |-> FALSE, file |-> NoContainer]
    ELSE IF ~MagicOk(head.buf) THEN [ok |-> FALSE, file |-> NoContainer]
    ELSE
      LET num_files == from_le_bytes(SubSeq(head.buf, 5, 8)) IN
      IF num_files >= Saturated THEN [ok |-> FALSE, file |-> NoContainer]
      ELSE
        LET table == read_exact(f.bytes, head.pos, num_files * 8) IN
        IF ~table.ok THEN [ok |-> FALSE, file |-> NoContainer]
        ELSE [ok |-> TRUE,
              file |-> FileContainer(p, table.pos,
                                     DecodeOffsets(table.buf, num_files))]

\* Where read_at seeks to: SeekFrom::Start(8 + 8 * len + start).
SeekTarget_FromCursor(c, start) == c.pos + start
SeekTarget(c, start) == 8 + 8 * len(c) + start

\* FileContainer::read_at(i) on container c over the bytes of its file:
\* [ok, buf, pos].  The assert, a subtraction below zero (a panic, or a
\* wrapped size no file holds) and a short read are the failure outcome.
read_at(c, bytes, i) ==
  IF ~(i < len(c)) THEN [ok |-> FALSE, buf |-> <<>>, pos |-> c.pos]
  ELSE
    LET start == IF i = 0 THEN 0 ELSE c.end_offsets[i]
        end == c.end_offsets[i + 1]
    IN IF end < start \/ end >= Saturated
       THEN [ok |-> FALSE, buf |-> <<>>, pos |-> c.pos]
       ELSE read_exact(bytes, SeekTarget(c, start), end - start)

(***************************************************************************)
(* usize arithmetic.  A build with overflow checks panics where the result *)
(* leaves 0..UsizeMax; a build without them wraps.                         *)
(***************************************************************************)
usize_sub(a, b) == (a - b + UsizeModulus) % UsizeModulus
usize_add(a, b) == (a + b) % UsizeModulus
sub_overflows(a, b) == a < b
add_overflows(a, b) == a + b > UsizeMax

(***************************************************************************)
(* The grid of the selector (selector.rs): pages and clicks.  The indices  *)
(* of the grid stay far below 2^64, so its usize arithmetic is exact here. *)
(***************************************************************************)
NUM_COLUMNS == 4
NUM_ROWS == 3

\* Screen::page_size
page_size == NUM_COLUMNS * NUM_ROWS

\* usize::div_ceil and usize::saturating_sub
div_ceil(a, b) == (a + b - 1) \div b
saturating_sub(a, b) == IF a < b THEN 0 ELSE a - b

\* An element of Screen::ofcs.
Ofc(p, sel) == [path |-> p, selected |-> sel]

\* Screen::page_count over the entries o.
page_count_Floor(o) == Len(o) \div page_size
page_count(o) == div_ceil(Len(o), page_size)

\* Whether the slice &ofcs[page_index * page_size..] of current_page is in
\* range (it panics otherwise).
current_page_in_range(o, p) == p * page_size <= Len(o)

\* Screen::current_page over the entries o at page p.
current_page_WholeTail(o, p) == SubSeq(o, p * page_size + 1, Len(o))
current_page(o, p) ==
  LET start == SubSeq(o, p * page_size + 1, Len(o))
  IN SubSeq(start, 1, Min(page_size, Len(start)))

\* (v / extent as f64 * n as f64).floor() as usize, for whole v and n and a
\* positive extent.  The quotient is computed in f64, whose floor here is the
\* floor of the exact quotient; the cast saturates, so a negative value is 0.
floor_as_usize(v, extent, n) ==
  LET q == (v * n) \div extent IN IF q < 0 THEN 0 ELSE q

\* on_click's index_in_page for a click at (x, y) in a width x height
\* viewport.
index_in_page(x, y, width, height) ==
  LET col == floor_as_usize(x, width, NUM_COLUMNS)
      row == floor_as_usize(y, height, NUM_ROWS)
  IN row * NUM_COLUMNS + col

\* The index on_click hands to ofcs.get_mut for that click on page p.
click_index(p, x, y, width, height) ==
  (NUM_ROWS * NUM_COLUMNS) * p + index_in_page(x, y, width, height)

\* The entries after on_click: get_mut(index) flips the flag of the entry at
\* index when there is one.
on_click_Select(o, p, x, y, width, height) ==
  LET index == click_index(p, x, y, width, height) IN
  IF index < Len(o) THEN [o EXCEPT ![index + 1].selected = TRUE] ELSE o
on_click(o, p, x, y, width, height) ==
  LET index == click_index(p, x, y, width, height) IN
  IF index < Len(o)
  THEN [o EXCEPT ![index + 1].selected = ~o[index + 1].selected]
  ELSE o

(***************************************************************************)
(* Covers: reading entry 0 of a container and recognising its format       *)
(* (selector.rs load_image_bytes, decode_image; viewer.rs render_frame).   *)
(***************************************************************************)
\* b"\xFF\xD8\xFF", b"\x89PNG\x0D\x0A\x1A\x0A", b"RIFF", b"WEBPVP"
JPEG_SIGNATURE == <<255, 216, 255>>
PNG_SIGNATURE == <<137, 80, 78, 71, 13, 10, 26, 10>>
RIFF == <<82, 73, 70, 70>>
WEBPVP == <<87, 69, 66, 80, 86, 80>>
\* b"RIFF\0\0\0\0WEBPVP", of which decode_image takes only the length.
WEBP_HEADER == RIFF \o <<0, 0, 0, 0>> \o WEBPVP

\* <[u8]>::starts_with
starts_with(bytes, prefix) ==
  /\ Len(bytes) >= Len(prefix)
  /\ SubSeq(bytes, 1, Len(prefix)) = prefix

\* &bytes[from..][..n]: [ok, buf]; a range past the end of bytes panics.
slice(bytes, from, n) ==
  IF from + n <= Len(bytes)
  THEN [ok |-> TRUE, buf |-> SubSeq(bytes, from + 1, from + n)]
  ELSE [ok |-> FALSE, buf |-> <<>>]

\* The length test that guards the WebP branch of decode_image.
webp_guard_None(bytes) == TRUE
webp_guard(bytes) == Len(bytes) > Len(WEBP_HEADER)

\* The branch decode_image takes on bytes: "jpeg", "png", "webp",
\* "unsupported" (its panic), or "bounds" for a slice past the end.
image_format(bytes) ==
  IF starts_with(bytes, JPEG_SIGNATURE) THEN "jpeg"
  ELSE IF starts_with(bytes, PNG_SIGNATURE) THEN "png"
  ELSE IF webp_guard(bytes) /\ starts_with(bytes, RIFF)
  THEN LET tag == slice(bytes, 8, 6) IN
       IF ~tag.ok THEN "bounds"
       ELSE IF tag.buf = WEBPVP THEN "webp"
       ELSE "unsupported"
  ELSE "unsupported"

\* A DecodedImage: the format it was decoded as and the bytes it came from.
DecodedImage(format, bytes) == [format |-> format, bytes |-> bytes]
NoImage == DecodedImage("none", <<>>)

\* decode_image(bytes): [ok, image, why].  rejects is the set of buffers the
\* codec of their format fails on (its unwrap panics).
decode_image(bytes, rejects) ==
  LET format == image_format(bytes) IN
  IF format \in {"unsupported", "bounds"}
  THEN [ok |-> FALSE, image |-> NoImage, why |-> format]
  ELSE IF bytes \in rejects
  THEN [ok |-> FALSE, image |-> NoImage, why |-> "decode"]
  ELSE [ok |-> TRUE, image |-> DecodedImage(format, bytes), why |-> "none"]

\* load_image_bytes on the file f: [ok, buf, why].  It reads the 16 bytes
\* of the header and the first end offset, then end_offset bytes from
\* 8 + 8 * num_files.
load_image_bytes(f) ==
  IF ~f.exists THEN [ok |-> FALSE, buf |-> <<>>, why |-> "open"]
  ELSE
    LET head == read_exact(f.bytes, 0, 16) IN
    IF ~head.ok THEN [ok |-> FALSE, buf |-> <<>>, why |-> "read"]
    ELSE IF SubSeq(head.buf, 1, 4) # MAGIC
    THEN [ok |-> FALSE, buf |-> <<>>, why |-> "magic"]
    ELSE
      LET num_files == from_le_bytes(SubSeq(head.buf, 5, 8))
          end_offset == from_le_bytes(SubSeq(head.buf, 9, 16))
          entry == read_exact(f.bytes, 8 + 8 * num_files, end_offset)
      IN IF entry.ok
         THEN [ok |-> TRUE, buf |-> entry.buf, why |-> "none"]
         ELSE [ok |-> FALSE, buf |-> <<>>, why |-> "read"]

\* What a worker of decode_images comes to on the file f: [ok, image, why].
cover(f, rejects) ==
  LET image_bytes == load_image_bytes(f) IN
  IF image_bytes.ok
  THEN decode_image(image_bytes.buf, rejects)
  ELSE [ok |-> FALSE, image |-> NoImage, why |-> image_bytes.why]

\* The cell of the grid that the i-th image of a page is drawn in.
cell_column(i) == i % NUM_COLUMNS
cell_row(i) == i \div NUM_COLUMNS

(***************************************************************************)
(* State.                                                                  *)
(***************************************************************************)
VARIABLES
  disk,             \* the file system: disk[p] is the file at path p
  overflow_checks,  \* whether the build panics on integer overflow
  paths_data,       \* Paths::data: the paths given to Screen::new
  paths_index,      \* Paths::index
  cf_file,          \* CurrentFile::file
  cf_index,         \* CurrentFile::index
  show_progress,    \* Screen::show_progress
  out,              \* the bytes current_image_bytes returned last
  status,           \* "init" before Screen::new, then "running" or "panicked"
  panic,            \* what the panic was: "none", "open", "overflow", "read"
  op,               \* the operation called last
  pre,              \* Paths::index, CurrentFile::index and the handle's
                    \* cursor before that call
  calls,            \* calls made so far in a traversal (history)
  codec_rejects,    \* the image buffers the codecs fail to decode
  ofcs,             \* selector::Screen::ofcs
  page_index,       \* selector::Screen::page_index
  toggles,          \* how often a click fell on each entry (history)
  phase,            \* where the selector's render pass is
  handles,          \* decode_images: the workers spawned, in spawn order
  decoded_images,   \* decode_images: the results collected so far
  cells,            \* the cells render_frame has drawn in this frame
  frames,           \* render passes begun so far (history)
  image,            \* the image the viewer's render_frame drew last
  progress,         \* the markers render_progress drew in that frame
  pending,          \* the container FileContainer::open has returned in a
                    \* navigation call, not yet stored in CurrentFile::file
  event             \* the WindowEvent window_event was called with last

progVars == <<paths_data, paths_index, cf_file, cf_index, show_progress>>
gridVars == <<ofcs, page_index, toggles>>
frameVars == <<phase, handles, decoded_images, cells, frames>>
vars == <<disk, overflow_checks, paths_data, paths_index, cf_file, cf_index,
          show_progress, out, status, panic, op, pre, calls, codec_rejects,
          ofcs, page_index, toggles, phase, handles, decoded_images, cells,
          frames, image, progress, pending, event>>

\* The path at position i of Paths::data, and the file it names.
PathAt(i) == paths_data[i + 1]
FileAt(i) == disk[PathAt(i)]

\* FileContainer::open(&self.paths.data[i])
OpenAt(i) == open(PathAt(i), FileAt(i))

\* next_image's test for the last entry, index == len() - 1, with the
\* subtraction wrapped (the build that panics on it never gets here).
IsLastEntry_PastEnd(i, c) == i = len(c)
IsLastEntry(i, c) == i = usize_sub(len(c), 1)

\* previous_image's entry index in the container it has just opened,
\* len() - 1, wrapped likewise.
LastEntryIndex_First(c) == 0
LastEntryIndex(c) == usize_sub(len(c), 1)

\* The call returns normally.
Return(name) ==
  /\ op' = name
  /\ pre' = <<paths_index, cf_index, cf_file.pos>>
  /\ status' = "running"
  /\ panic' = "none"
  /\ UNCHANGED <<disk, overflow_checks, codec_rejects>>
  /\ UNCHANGED <<gridVars, frameVars, image, progress, pending, event>>

\* The call panics: the process ends with the fields as they are at that point.
Panic(name, why) ==
  /\ op' = name
  /\ pre' = <<paths_index, cf_index, cf_file.pos>>
  /\ status' = "panicked"
  /\ panic' = why
  /\ UNCHANGED <<disk, overflow_checks, codec_rejects>>
  /\ UNCHANGED <<gridVars, frameVars, image, progress, pending, event>>

(***************************************************************************)
(* Operations of viewer::Screen.                                           *)
(***************************************************************************)
\* Screen::new(paths): FileContainer::open(&paths[0]) panics on an empty
\* list (index out of bounds) and when the open fails.
ScreenNew(paths) ==
  IF paths = <<>>
  THEN Panic("new", "bounds") /\ UNCHANGED <<progVars, out>>
  ELSE LET r == open(paths[1], disk[paths[1]]) IN
       IF r.ok
       THEN /\ Return("new")
            /\ paths_data' = paths
            /\ cf_file' = r.file
            /\ cf_index' = 0
            /\ paths_index' = 0
            /\ show_progress' = FALSE
            /\ UNCHANGED out
       ELSE Panic("new", "open") /\ UNCHANGED <<progVars, out>>

\* Screen::new on the paths the viewer is handed.
New ==
  /\ status = "init"
  /\ ScreenNew(paths_data)

\* Screen::current_image_bytes
CurrentImageBytes ==
  /\ status = "running"
  /\ LET r == read_at(cf_file, disk[cf_file.path].bytes, cf_index) IN
     IF r.ok
     THEN /\ Return("current_image_bytes")
          /\ out' = r.buf
          /\ cf_file' = [cf_file EXCEPT !.pos = r.pos]
          /\ UNCHANGED <<paths_data, paths_index, cf_index, show_progress>>
     ELSE Panic("current_image_bytes", "read") /\ UNCHANGED <<progVars, out>>

\* Screen::next_image
NextImage ==
  /\ status = "running"
  /\ IF sub_overflows(len(cf_file), 1) /\ overflow_checks
     THEN Panic("next_image", "overflow") /\ UNCHANGED <<progVars, out>>
     ELSE
       IF IsLastEntry(cf_index, cf_file)
       THEN
         IF paths_index = Len(paths_data) - 1
         THEN Return("next_image") /\ UNCHANGED <<progVars, out>>
         ELSE
           LET r == OpenAt(paths_index + 1) IN
           /\ paths_index' = paths_index + 1
           /\ IF r.ok
              THEN /\ Return("next_image")
                   /\ cf_file' = r.file
                   /\ cf_index' = 0
              ELSE /\ Panic("next_image", "open")
                   /\ UNCHANGED <<cf_file, cf_index>>
           /\ UNCHANGED <<paths_data, show_progress, out>>
       ELSE
         IF add_overflows(cf_index, 1) /\ overflow_checks
         THEN Panic("next_image", "overflow") /\ UNCHANGED <<progVars, out>>
         ELSE /\ Return("next_image")
              /\ cf_index' = usize_add(cf_index, 1)
              /\ UNCHANGED <<paths_data, paths_index, cf_file, show_progress,
                             out>>

\* Screen::previous_image
PreviousImage ==
  /\ status = "running"
  /\ IF cf_index = 0
     THEN
       IF paths_index = 0
       THEN Return("previous_image") /\ UNCHANGED <<progVars, out>>
       ELSE
         LET r == OpenAt(paths_index - 1) IN
         /\ paths_index' = paths_index - 1
         /\ IF ~r.ok
            THEN /\ Panic("previous_image", "open")
                 /\ UNCHANGED <<cf_file, cf_index>>
            ELSE /\ cf_file' = r.file
                 /\ IF sub_overflows(len(r.file), 1) /\ overflow_checks
                    THEN /\ Panic("previous_image", "overflow")
                         /\ UNCHANGED cf_index
                    ELSE /\ Return("previous_image")
                         /\ cf_index' = LastEntryIndex(r.file)
         /\ UNCHANGED <<paths_data, show_progress, out>>
     ELSE /\ Return("previous_image")
          /\ cf_index' = cf_index - 1
          /\ UNCHANGED <<paths_data, paths_index, cf_file, show_progress, out>>

\* next_file moving the way its name says.
NextFile_AsNamed ==
  /\ status = "running"
  /\ IF paths_index = Len(paths_data) - 1
     THEN Return("next_file") /\ UNCHANGED <<progVars, out>>
     ELSE
       LET r == OpenAt(paths_index + 1) IN
       /\ paths_index' = paths_index + 1
       /\ IF r.ok
          THEN /\ Return("next_file")
               /\ cf_file' = r.file
               /\ cf_index' = 0
          ELSE /\ Panic("next_file", "open")
               /\ UNCHANGED <<cf_file, cf_index>>
       /\ UNCHANGED <<paths_data, show_progress, out>>

\* Screen::next_file
NextFile ==
  /\ status = "running"
  /\ IF paths_index = 0
     THEN Return("next_file") /\ UNCHANGED <<progVars, out>>
     ELSE
       LET r == OpenAt(paths_index - 1) IN
       /\ paths_index' = paths_index - 1
       /\ IF r.ok
          THEN /\ Return("next_file")
               /\ cf_file' = r.file
               /\ cf_index' = 0
          ELSE /\ Panic("next_file", "open")
               /\ UNCHANGED <<cf_file, cf_index>>
       /\ UNCHANGED <<paths_data, show_progress, out>>

\* previous_file leaving entry_index as it is.
PreviousFile_KeepsEntry ==
  /\ status = "running"
  /\ IF paths_index = Len(paths_data) - 1
     THEN Return("previous_file") /\ UNCHANGED <<progVars, out>>
     ELSE
       LET r == OpenAt(paths_index + 1) IN
       /\ paths_index' = paths_index + 1
       /\ IF r.ok
          THEN /\ Return("previous_file")
               /\ cf_file' = r.file
               /\ UNCHANGED cf_index
          ELSE /\ Panic("previous_file", "open")
               /\ UNCHANGED <<cf_file, cf_index>>
       /\ UNCHANGED <<paths_data, show_progress, out>>

\* Screen::previous_file
PreviousFile ==
  /\ status = "running"
  /\ IF paths_index = Len(paths_data) - 1
     THEN Return("previous_file") /\ UNCHANGED <<progVars, out>>
     ELSE
       LET r == OpenAt(paths_index + 1) IN
       /\ paths_index' = paths_index + 1
       /\ IF r.ok
          THEN /\ Return("previous_file")
               /\ cf_file' = r.file
               /\ cf_index' = 0
          ELSE /\ Panic("previous_file", "open")
               /\ UNCHANGED <<cf_file, cf_index>>
       /\ UNCHANGED <<paths_data, show_progress, out>>

\* Whether the navigation call name goes to another container from here,
\* and the index in Paths::data of that container.
MoveTarget(name) ==
  CASE name = "next_image" ->
         [moves |-> /\ ~(sub_overflows(len(cf_file), 1) /\ overflow_checks)
                    /\ IsLastEntry(cf_index, cf_file)
                    /\ paths_index # Len(paths_data) - 1,
          to |-> paths_index + 1]
    [] name = "previous_image" ->
         [moves |-> cf_index = 0 /\ paths_index # 0, to |-> paths_index - 1]
    [] name = "next_file" ->
         [moves |-> paths_index # 0, to |-> paths_index - 1]
    [] OTHER ->
         [moves |-> paths_index # Len(paths_data) - 1, to |-> paths_index + 1]

\* What the steps inside a navigation call leave alone.
MoveStep ==
  /\ UNCHANGED <<disk, overflow_checks, codec_rejects, calls, event>>
  /\ UNCHANGED <<paths_data, show_progress, out, image, progress>>
  /\ UNCHANGED <<gridVars, frameVars>>

\* The first half of a navigation call that goes to another container:
\* Paths::index is set, and FileContainer::open is evaluated, the right-hand
\* side of `self.current_file.file = FileContainer::open(..)`.  The old
\* container is still in the field.
BeginMove(name) ==
  /\ status = "running"
  /\ pending = NoContainer
  /\ MoveTarget(name).moves
  /\ LET r == OpenAt(MoveTarget(name).to) IN
     /\ paths_index' = MoveTarget(name).to
     /\ op' = name
     /\ pre' = <<paths_index, cf_index, cf_file.pos>>
     /\ IF r.ok
        THEN /\ pending' = r.file
             /\ UNCHANGED <<status, panic>>
        ELSE /\ status' = "panicked"
             /\ panic' = "open"
             /\ UNCHANGED pending
  /\ UNCHANGED <<cf_file, cf_index>>
  /\ MoveStep

\* The second half: the assignment drops the container that was in the
\* field and stores the new one, then CurrentFile::index is set (len() - 1
\* in previous_image, 0 in the others).
EndMove_KeepsOld ==
  /\ status = "running"
  /\ pending # NoContainer
  /\ pending' = NoContainer
  /\ UNCHANGED cf_file
  /\ IF op = "previous_image"
     THEN IF sub_overflows(len(pending), 1) /\ overflow_checks
          THEN /\ status' = "panicked"
               /\ panic' = "overflow"
               /\ UNCHANGED cf_index
          ELSE /\ cf_index' = LastEntryIndex(pending)
               /\ UNCHANGED <<status, panic>>
     ELSE /\ cf_index' = 0
          /\ UNCHANGED <<status, panic>>
  /\ UNCHANGED <<paths_index, op, pre>>
  /\ MoveStep
EndMove ==
  /\ status = "running"
  /\ pending # NoContainer
  /\ pending' = NoContainer
  /\ cf_file' = pending
  /\ IF op = "previous_image"
     THEN IF sub_overflows(len(pending), 1) /\ overflow_checks
          THEN /\ status' = "panicked"
               /\ panic' = "overflow"
               /\ UNCHANGED cf_index
          ELSE /\ cf_index' = LastEntryIndex(pending)
               /\ UNCHANGED <<status, panic>>
     ELSE /\ cf_index' = 0
          /\ UNCHANGED <<status, panic>>
  /\ UNCHANGED <<paths_index, op, pre>>
  /\ MoveStep

\* Screen::toggle_progress_display
ToggleProgressDisplay ==
  /\ status = "running"
  /\ Return("toggle_progress_display")
  /\ show_progress' = ~show_progress
  /\ UNCHANGED <<paths_data, paths_index, cf_file, cf_index, out>>

\* render_progress(index, len): [ok, dots], the markers drawn,
\* index * 10 / len; the division panics when len is 0.
render_progress_Percent(index, length) ==
  IF length = 0
  THEN [ok |-> FALSE, dots |-> 0]
  ELSE [ok |-> TRUE, dots |-> (index * 100) \div length]
render_progress(index, length) ==
  IF length = 0
  THEN [ok |-> FALSE, dots |-> 0]
  ELSE [ok |-> TRUE, dots |-> (index * 10) \div length]

\* viewer::render_frame, run by main.rs on RedrawRequested with the viewer
\* shown: current_image_bytes, the image decoded by its format and drawn,
\* then render_progress if show_progress is set.  A panic ends the process
\* with the fields as they are at that point.
RenderFrame ==
  /\ status = "running"
  /\ op' = "render_frame"
  /\ pre' = <<paths_index, cf_index, cf_file.pos>>
  /\ LET r == read_at(cf_file, disk[cf_file.path].bytes, cf_index)
         d == decode_image(r.buf, codec_rejects)
         dots == render_progress(cf_index, len(cf_file))
     IN IF ~r.ok
        THEN /\ status' = "panicked"
             /\ panic' = "read"
             /\ UNCHANGED <<cf_file, out, image, progress>>
        ELSE /\ out' = r.buf
             /\ cf_file' = [cf_file EXCEPT !.pos = r.pos]
             /\ IF ~d.ok
                THEN /\ status' = "panicked"
                     /\ panic' = d.why
                     /\ UNCHANGED <<image, progress>>
                ELSE /\ image' = d.image
                     /\ IF show_progress /\ ~dots.ok
                        THEN /\ status' = "panicked"
                             /\ panic' = "division"
                             /\ UNCHANGED progress
                        ELSE /\ status' = "running"
                             /\ panic' = "none"
                             /\ progress' = IF show_progress
                                            THEN dots.dots ELSE 0
  /\ UNCHANGED <<paths_data, paths_index, cf_index, show_progress>>
  /\ UNCHANGED <<disk, overflow_checks, codec_rejects, gridVars, frameVars>>
  /\ UNCHANGED <<pending, event>>

(***************************************************************************)
(* Operations of selector::Screen, as main.rs calls them: the one thread   *)
(* handles an event only between frames, and only while the selector is    *)
(* the screen shown.                                                       *)
(***************************************************************************)
Selecting == status = "init" /\ phase = "idle"

\* A call on the selector returns.
GridReturn(name) ==
  /\ op' = name
  /\ UNCHANGED <<status, panic, pre, calls, progVars, out, frameVars>>
  /\ UNCHANGED <<image, progress, pending, event>>
  /\ UNCHANGED <<disk, overflow_checks, codec_rejects>>

\* A call on the selector panics.
GridPanic(name, why) ==
  /\ op' = name
  /\ status' = "panicked"
  /\ panic' = why
  /\ UNCHANGED <<pre, calls, progVars, out, frameVars, gridVars>>
  /\ UNCHANGED <<image, progress, pending, event>>
  /\ UNCHANGED <<disk, overflow_checks, codec_rejects>>

\* Screen::previous_page
PreviousPage ==
  /\ Selecting
  /\ GridReturn("previous_page")
  /\ page_index' = saturating_sub(page_index, 1)
  /\ UNCHANGED <<ofcs, toggles>>

\* Screen::next_page: (page_index + 1).min(page_count() - 1).  With no page
\* the subtraction overflows: a panic, or usize::MAX as the bound of min.
NextPage ==
  /\ Selecting
  /\ IF sub_overflows(page_count(ofcs), 1)
     THEN IF overflow_checks
          THEN GridPanic("next_page", "overflow")
          ELSE /\ GridReturn("next_page")
               /\ page_index' = page_index + 1
               /\ UNCHANGED <<ofcs, toggles>>
     ELSE /\ GridReturn("next_page")
          /\ page_index' = Min(page_index + 1, page_count(ofcs) - 1)
          /\ UNCHANGED <<ofcs, toggles>>

\* The clicks main.rs hands to on_click: <<x, y, width, height>> with the
\* cursor at a pixel of the viewport, on its right or bottom edge, or one
\* pixel outside (the position is the one last reported, which may be off
\* the window).
Clicks ==
  UNION {{<<x, y, NUM_COLUMNS + d, NUM_ROWS + d>> :
            x \in -1..(NUM_COLUMNS + d), y \in -1..(NUM_ROWS + d)} :
         d \in 0..MaxStretch}

\* One click for each index_in_page the clicks come to: on_click uses of a
\* click nothing but that, so these are all the steps the clicks can make.
ClickCells ==
  {CHOOSE c \in Clicks : index_in_page(c[1], c[2], c[3], c[4]) = i :
     i \in {index_in_page(c[1], c[2], c[3], c[4]) : c \in Clicks}}

\* Screen::on_click
OnClick ==
  /\ Selecting
  /\ \E c \in ClickCells :
       LET index == click_index(page_index, c[1], c[2], c[3], c[4]) IN
       /\ index < Len(ofcs) => Sum(toggles) < MaxClicks
       /\ ofcs' = on_click(ofcs, page_index, c[1], c[2], c[3], c[4])
       /\ toggles' = IF index < Len(ofcs)
                     THEN [toggles EXCEPT ![index + 1] = @ + 1]
                     ELSE toggles
  /\ GridReturn("on_click")
  /\ UNCHANGED page_index

\* The paths of the selected entries, in the order of ofcs.
SelectedPaths(o) ==
  LET chosen == SelectSeq(o, LAMBDA e : e.selected)
  IN [i \in 1..Len(chosen) |-> chosen[i].path]

\* State::move_to_viewer (Enter in the selector): the viewer's Screen::new on
\* the selected paths, with no test for an empty selection.
MoveToViewer ==
  /\ Selecting
  /\ ScreenNew(SelectedPaths(ofcs))

(***************************************************************************)
(* The selector's render pass (selector.rs render_frame, decode_images),   *)
(* run by main.rs on RedrawRequested.  decode_images spawns one scoped     *)
(* thread per entry of the page, then joins the handles in spawn order;    *)
(* thread::scope lets no panic out before every thread it spawned has      *)
(* finished.  A worker runs on its own, so its one step is the whole of    *)
(* load_image_bytes and decode_image.                                      *)
(***************************************************************************)
\* A JoinHandle of decode_images: the path its worker decodes, and whether
\* the worker has finished.
Handle(p, done) == [path |-> p, done |-> done]

\* What the worker of handle h returns or panics with: [ok, image, why].
TaskResult(h) == cover(disk[h.path], codec_rejects)

\* h.join() returns only once the worker has finished.
joinable_Always(h) == TRUE
joinable(h) == h.done

\* The handle that the k + 1st join of decode_images is made on, of hs.
next_handle_Reversed(hs, k) == hs[Len(hs) - k]
next_handle(hs, k) == hs[k + 1]

\* thread::scope returns, or lets the panic of its closure go on, only when
\* no thread spawned in it is still running.
scope_may_exit_AtOnce(hs) == TRUE
scope_may_exit(hs) == \A i \in 1..Len(hs) : hs[i].done

\* A cell drawn by render_frame: draw_cover of the image at (row, column),
\* and whether the selection rectangle was drawn over it.
Cell(i, img, overlay) ==
  [row |-> cell_row(i), column |-> cell_column(i), image |-> img,
   overlay |-> overlay]

\* What a step of the render pass leaves alone.
FrameStep ==
  /\ UNCHANGED <<disk, overflow_checks, codec_rejects>>
  /\ UNCHANGED <<progVars, out, image, progress, pre, calls, gridVars>>
  /\ UNCHANGED <<pending, event>>

\* RedrawRequested with the selector shown: the canvas is cleared and
\* render_frame enters decode_images on the current page.
BeginFrame ==
  /\ Selecting
  /\ frames < MaxFrames
  /\ frames' = frames + 1
  /\ op' = "render_frame"
  /\ handles' = <<>>
  /\ decoded_images' = <<>>
  /\ cells' = <<>>
  /\ IF ~current_page_in_range(ofcs, page_index)
     THEN /\ phase' = "aborted"
          /\ status' = "panicked"
          /\ panic' = "bounds"
     ELSE /\ phase' = IF current_page(ofcs, page_index) = <<>>
                      THEN "idle" ELSE "spawning"
          /\ UNCHANGED <<status, panic>>
  /\ FrameStep

\* s.spawn for the next entry of the page; after the last one the handles
\* are collected and the joins begin.
Spawn ==
  /\ phase = "spawning"
  /\ LET page == current_page(ofcs, page_index)
         k == Len(handles)
     IN /\ handles' = Append(handles, Handle(page[k + 1].path, FALSE))
        /\ phase' = IF k + 1 = Len(page) THEN "joining" ELSE "spawning"
  /\ UNCHANGED <<decoded_images, cells, frames, status, panic, op>>
  /\ FrameStep

\* The worker of the i-th handle runs to its end (it returns or panics).
Work(i) ==
  /\ phase \in {"spawning", "joining", "unwinding"}
  /\ i \in 1..Len(handles)
  /\ ~handles[i].done
  /\ handles' = [handles EXCEPT ![i].done = TRUE]
  /\ UNCHANGED <<phase, decoded_images, cells, frames, status, panic, op>>
  /\ FrameStep

\* h.join().unwrap() on the next handle: the image is collected, or the
\* worker's panic is raised in the closure of thread::scope.  After the last
\* join the scope returns and the drawing begins.
Join_SkipFailed ==
  /\ phase = "joining"
  /\ LET h == next_handle(handles, Len(decoded_images)) IN
     /\ joinable(h)
     /\ decoded_images' =
          Append(decoded_images,
                 IF TaskResult(h).ok THEN TaskResult(h).image ELSE NoImage)
     /\ phase' = IF Len(decoded_images') = Len(handles)
                 THEN "drawing" ELSE "joining"
  /\ UNCHANGED <<handles, cells, frames, status, panic, op>>
  /\ FrameStep
Join ==
  /\ phase = "joining"
  /\ LET h == next_handle(handles, Len(decoded_images)) IN
     /\ joinable(h)
     /\ IF TaskResult(h).ok
        THEN /\ decoded_images' = Append(decoded_images, TaskResult(h).image)
             /\ phase' = IF Len(decoded_images') = Len(handles)
                         THEN "drawing" ELSE "joining"
        ELSE /\ phase' = "unwinding"
             /\ UNCHANGED decoded_images
  /\ UNCHANGED <<handles, cells, frames, status, panic, op>>
  /\ FrameStep

\* The panic leaves thread::scope, render_frame and the process.
Unwind ==
  /\ phase = "unwinding"
  /\ scope_may_exit(handles)
  /\ phase' = "aborted"
  /\ status' = "panicked"
  /\ panic' = "worker"
  /\ UNCHANGED <<handles, decoded_images, cells, frames, op>>
  /\ FrameStep

\* The next turn of render_frame's loop: the i-th image is drawn in cell i,
\* with the selection rectangle if ofcs[i] of the page is selected.  After
\* the last one the frame is shown.
Draw ==
  /\ phase = "drawing"
  /\ LET page == current_page(ofcs, page_index)
         i == Len(cells)
     IN /\ cells' = Append(cells, Cell(i, decoded_images[i + 1],
                                       page[i + 1].selected))
        /\ phase' = IF i + 1 = Len(decoded_images) THEN "idle" ELSE "drawing"
  /\ UNCHANGED <<handles, decoded_images, frames, status, panic, op>>
  /\ FrameStep

(***************************************************************************)
(* The event handler of main.rs, window_event: it is called with one event *)
(* at a time and matches on State::screen.                                 *)
(***************************************************************************)
\* State::screen: the selector, until move_to_viewer has built the viewer's
\* Screen with its container.
screen == IF cf_file = NoContainer THEN "Selector" ELSE "Viewer"

\* The keys pressed (x: any key main.rs has no use for), the mouse buttons
\* pressed, and the events of the two kinds.
Keys == {"Enter", "j", "k", "l", "h", "p", "x"}
Buttons == {"Left", "Back", "Forward", "Middle"}
Events == Keys \cup Buttons

\* The one key the selector takes: logical_key == Key::Named(NamedKey::Enter).
is_enter_Any(key) == TRUE
is_enter(key) == key = "Enter"

\* The event loop calls window_event with the next event, once the call
\* before has returned.
NextEvent ==
  /\ status # "panicked"
  /\ phase = "idle"
  /\ \E e \in Events : event' = e
  /\ UNCHANGED <<disk, overflow_checks, codec_rejects, progVars, out, status>>
  /\ UNCHANGED <<panic, op, pre, calls, gridVars, frameVars, image, progress>>
  /\ UNCHANGED pending

\* WindowEvent::KeyboardInput, a key pressed.
KeyboardInput ==
  /\ event \in Keys
  /\ status # "panicked"
  /\ phase = "idle"
  /\ IF screen = "Selector"
     THEN IF is_enter(event)
          THEN MoveToViewer /\ UNCHANGED calls
          ELSE UNCHANGED vars
     ELSE IF event = "j" THEN NextImage /\ UNCHANGED calls
     ELSE IF event = "k" THEN PreviousImage /\ UNCHANGED calls
     ELSE IF event = "l" THEN PreviousFile /\ UNCHANGED calls
     ELSE IF event = "h" THEN NextFile /\ UNCHANGED calls
     ELSE IF event = "p" THEN ToggleProgressDisplay /\ UNCHANGED calls
     ELSE UNCHANGED vars

\* WindowEvent::MouseInput, a button pressed.
MouseInput ==
  /\ event \in Buttons
  /\ status # "panicked"
  /\ phase = "idle"
  /\ IF screen = "Selector"
     THEN IF event = "Left" THEN OnClick
          ELSE IF event = "Back" THEN PreviousPage
          ELSE IF event = "Forward" THEN NextPage
          ELSE UNCHANGED vars
     ELSE UNCHANGED vars

(***************************************************************************)
(* The files the specifications start from.                                *)
(***************************************************************************)
\* Every sequence of at most n entry sizes, each at most m.
SizeSeqs(n, m) == UNION {[1..k -> 0..m] : k \in 0..n}

\* A well-formed container of n one-byte entries.
NavContainer(n) == File(BuildFile([i \in 1..n |-> 1]))

\* A file whose magic differs in byte k (1..4).
BadMagic(bytes, k) == [bytes EXCEPT ![k] = (bytes[k] + 1) % 256]

\* The files of the navigation specification: containers of 0..MaxLen entries
\* and a file with a wrong magic.
NavFiles ==
  {NavContainer(n) : n \in 0..MaxLen} \cup {File(BadMagic(BuildFile(<<1>>), 4))}

\* The files of SpecFile: every container of at most MaxEntries entries of at
\* most MaxEntrySize bytes, every prefix of one (a truncated file), every one
\* with a byte of its magic changed, and a path with no file.
BuiltFiles == {BuildFile(s) : s \in SizeSeqs(MaxEntries, MaxEntrySize)}
AllFiles ==
  UNION {{File(SubSeq(b, 1, n)) : n \in 0..Len(b)} : b \in BuiltFiles}
    \cup {File(BadMagic(b, k)) : b \in BuiltFiles, k \in 1..4}
    \cup {NoSuchFile}

\* The fields before Screen::new has run.
Unconstructed ==
  /\ paths_index = 0
  /\ cf_file = NoContainer
  /\ cf_index = 0
  /\ show_progress = FALSE
  /\ out = <<>>
  /\ status = "init"
  /\ panic = "none"
  /\ op = "init"
  /\ pre = <<0, 0, 0>>
  /\ calls = 0
  /\ image = NoImage
  /\ progress = 0
  /\ pending = NoContainer
  /\ event = "none"

\* No selector: the viewer is opened straight on its paths.
NoSelector ==
  /\ ofcs = <<>>
  /\ page_index = 0
  /\ toggles = <<>>

\* No render pass of the selector is under way.
NoFrame ==
  /\ phase = "idle"
  /\ handles = <<>>
  /\ decoded_images = <<>>
  /\ cells = <<>>
  /\ frames = 0

\* The codecs decode every buffer of a format they know.
AllDecodable == codec_rejects = {}

\* The viewer is about to be opened on 1..MaxPaths paths.
Init ==
  /\ disk \in UNION {[1..n -> NavFiles] : n \in 1..MaxPaths}
  /\ overflow_checks \in BOOLEAN
  /\ paths_data = [i \in 1..Len(disk) |-> i]
  /\ Unconstructed
  /\ NoSelector
  /\ NoFrame
  /\ AllDecodable

\* The viewer is about to be opened on one path, whose file is any of AllFiles.
InitFile ==
  /\ disk \in {<<f>> : f \in AllFiles}
  /\ overflow_checks \in BOOLEAN
  /\ paths_data = <<1>>
  /\ Unconstructed
  /\ NoSelector
  /\ NoFrame
  /\ AllDecodable

\* The viewer is about to be opened on 1..MaxTraversalPaths containers of
\* 1..MaxLen entries each.
InitTraversal ==
  /\ disk \in UNION {[1..n -> {NavContainer(k) : k \in 1..MaxLen}] :
                      n \in 1..MaxTraversalPaths}
  /\ overflow_checks \in BOOLEAN
  /\ paths_data = [i \in 1..Len(disk) |-> i]
  /\ Unconstructed
  /\ NoSelector
  /\ NoFrame
  /\ AllDecodable

\* The entries of all the containers of Paths::data together.
TotalEntries == Sum([i \in 1..Len(paths_data) |-> len(OpenAt(i - 1).file)])

\* The position (container i, entry e) counted in lexicographic order from 0.
FlatPosition(i, e) ==
  Sum([k \in 1..i |-> len(OpenAt(k - 1).file)]) + e

\* The viewer shows the last entry of the last container.
AtGlobalEnd ==
  /\ status = "running"
  /\ paths_index = Len(paths_data) - 1
  /\ cf_index = len(cf_file) - 1

Next ==
  \/ New /\ UNCHANGED calls
  \/ CurrentImageBytes /\ UNCHANGED calls
  \/ NextImage /\ UNCHANGED calls
  \/ PreviousImage /\ UNCHANGED calls
  \/ NextFile /\ UNCHANGED calls
  \/ PreviousFile /\ UNCHANGED calls
  \/ ToggleProgressDisplay /\ UNCHANGED calls

Spec == Init /\ [][Next]_vars

SpecFile == InitFile /\ [][Next]_vars

\* Forward traversal: the viewer is opened, then next_image is called again
\* and again (MaxExtra calls past the end).
NextForward ==
  \/ New /\ UNCHANGED calls
  \/ /\ calls < TotalEntries - 1 + MaxExtra
     /\ NextImage
     /\ calls' = calls + 1

SpecForward == InitTraversal /\ [][NextForward]_vars

\* Backward traversal: the viewer is opened and taken to the last entry of
\* the last container, then previous_image is called again and again
\* (MaxExtra calls past the start); calls counts the previous_image calls.
NextBackward ==
  \/ New /\ UNCHANGED calls
  \/ /\ calls = 0
     /\ ~AtGlobalEnd
     /\ NextImage
     /\ UNCHANGED calls
  \/ /\ AtGlobalEnd \/ calls > 0
     /\ calls < TotalEntries - 1 + MaxExtra
     /\ PreviousImage
     /\ calls' = calls + 1

SpecBackward == InitTraversal /\ [][NextBackward]_vars

\* Navigation with the calls that go to another container taken in their two
\* halves; a call that stays in its container, or at an end, is one step.
NextLifecycle ==
  \/ New /\ UNCHANGED calls
  \/ BeginMove("next_image")
  \/ BeginMove("previous_image")
  \/ BeginMove("next_file")
  \/ BeginMove("previous_file")
  \/ EndMove
  \/ /\ pending = NoContainer
     /\ ~MoveTarget("next_image").moves
     /\ NextImage
     /\ UNCHANGED calls
  \/ /\ pending = NoContainer
     /\ ~MoveTarget("previous_image").moves
     /\ PreviousImage
     /\ UNCHANGED calls
  \/ /\ pending = NoContainer
     /\ ~MoveTarget("next_file").moves
     /\ NextFile
     /\ UNCHANGED calls
  \/ /\ pending = NoContainer
     /\ ~MoveTarget("previous_file").moves
     /\ PreviousFile
     /\ UNCHANGED calls
  \/ /\ pending = NoContainer
     /\ CurrentImageBytes
     /\ UNCHANGED calls

SpecLifecycle == Init /\ [][NextLifecycle]_vars

\* A call and the opposite call: the viewer is opened and taken to any
\* position by next_image, then next_image is followed by previous_image, or
\* previous_image by next_image; calls counts the calls of that pair.
NextInverse ==
  \/ New /\ UNCHANGED calls
  \/ /\ calls = 0
     /\ NextImage
     /\ UNCHANGED calls
  \/ /\ calls = 0
     /\ NextImage
     /\ calls' = 1
  \/ /\ calls = 0
     /\ PreviousImage
     /\ calls' = 1
  \/ /\ calls = 1
     /\ op = "next_image"
     /\ PreviousImage
     /\ calls' = 2
  \/ /\ calls = 1
     /\ op = "previous_image"
     /\ NextImage
     /\ calls' = 2

SpecInverse == InitTraversal /\ [][NextInverse]_vars

\* The selector is shown over 1..MaxOfcs paths (main.rs returns before
\* building it when there is none), each a container of one entry, or with
\* no file at the first path.
SelectorDisks(n) ==
  {[i \in 1..n |-> IF i = missing THEN NoSuchFile ELSE NavContainer(1)] :
     missing \in 0..1}

InitSelector ==
  /\ \E n \in 1..MaxOfcs :
       /\ disk \in SelectorDisks(n)
       /\ ofcs = [i \in 1..n |-> Ofc(i, FALSE)]
       /\ toggles = [i \in 1..n |-> 0]
  /\ page_index = 0
  /\ overflow_checks \in BOOLEAN
  /\ paths_data = <<>>
  /\ Unconstructed
  /\ NoFrame
  /\ AllDecodable

NextSelector ==
  \/ PreviousPage
  \/ NextPage
  \/ OnClick
  \/ MoveToViewer /\ UNCHANGED calls

SpecSelector == InitSelector /\ [][NextSelector]_vars

\* The bytes of a container holding the given entries.
BuildContainer(entries) ==
  MAGIC
    \o to_le_bytes(Len(entries), 4)
    \o Flatten([i \in 1..Len(entries) |->
                  to_le_bytes(Sum([k \in 1..i |-> Len(entries[k])]), 8)])
    \o Flatten(entries)

\* The cover of the container at path p: an image of one of the three
\* formats, its signature followed by a byte that tells the covers apart.
CoverBytes(p) ==
  <<JPEG_SIGNATURE, PNG_SIGNATURE, WEBP_HEADER>>[(p % 3) + 1] \o <<p>>

\* What can be at a path of the grid: a container whose cover decodes, no
\* file, a file cut short inside the first end offset, a container whose
\* cover is of no known format, and one whose cover its codec fails on.
CoverKinds == {"good", "missing", "truncated", "unsupported", "undecodable"}
CoverFile(p, kind) ==
  CASE kind = "missing" -> NoSuchFile
    [] kind = "truncated" ->
         File(SubSeq(BuildContainer(<<CoverBytes(p)>>), 1, 12))
    [] kind = "unsupported" -> File(BuildContainer(<<(<<0, p>>)>>))
    [] OTHER -> File(BuildContainer(<<CoverBytes(p)>>))

\* The grids of SpecRender, as the kind of file at each path: up to
\* MaxCovers paths of any kinds, or a page and one more path, of which none,
\* the first or the last has no file.
RenderKinds ==
  UNION {[1..n -> CoverKinds] : n \in 1..MaxCovers}
    \cup {[i \in 1..(page_size + 1) |->
              IF i = bad THEN "missing" ELSE "good"] :
            bad \in {0, 1, page_size + 1}}

\* The selector is shown on its first page, every second entry selected,
\* and no frame has been drawn yet.
InitRender ==
  /\ \E kinds \in RenderKinds :
       /\ disk = [p \in 1..Len(kinds) |-> CoverFile(p, kinds[p])]
       /\ codec_rejects =
            {CoverBytes(p) : p \in {q \in 1..Len(kinds) :
                                      kinds[q] = "undecodable"}}
       /\ ofcs = [i \in 1..Len(kinds) |-> Ofc(i, i % 2 = 0)]
       /\ toggles = [i \in 1..Len(kinds) |-> IF i % 2 = 0 THEN 1 ELSE 0]
  /\ page_index = 0
  /\ overflow_checks \in BOOLEAN
  /\ paths_data = <<>>
  /\ Unconstructed
  /\ NoFrame

\* Redraws and page changes of the selector, a frame's steps interleaved
\* with those of its workers.
NextRender ==
  \/ BeginFrame
  \/ Spawn
  \/ \E i \in 1..page_size : Work(i)
  \/ Join
  \/ Unwind
  \/ Draw
  \/ PreviousPage
  \/ NextPage

SpecRender == InitRender /\ [][NextRender]_vars

\* Buffers around the three signatures: an image of each format and a RIFF
\* file that is no WebP, every prefix of these, and every one of them with
\* one byte changed.
ImageSamples ==
  {JPEG_SIGNATURE \o <<224>>,
   PNG_SIGNATURE \o <<0>>,
   WEBP_HEADER \o <<56, 32>>,
   RIFF \o <<0, 0, 0, 0>> \o <<87, 65, 86, 69, 102, 109, 116, 32>>}
SniffBuffers ==
  UNION {{SubSeq(b, 1, n) : n \in 0..Len(b)} : b \in ImageSamples}
    \cup UNION {{[b EXCEPT ![k] = (b[k] + 1) % 256] : k \in 1..Len(b)} :
                b \in ImageSamples}

\* The viewer is about to be opened on one container, whose one entry is any
\* of SniffBuffers.
InitSniff ==
  /\ disk \in {<<File(BuildContainer(<<b>>))>> : b \in SniffBuffers}
  /\ overflow_checks \in BOOLEAN
  /\ paths_data = <<1>>
  /\ Unconstructed
  /\ NoSelector
  /\ NoFrame
  /\ AllDecodable

\* The viewer is opened and draws frames, the progress display on or off.
NextSniff ==
  \/ New /\ UNCHANGED calls
  \/ ToggleProgressDisplay /\ UNCHANGED calls
  \/ RenderFrame /\ UNCHANGED calls

SpecSniff == InitSniff /\ [][NextSniff]_vars

\* A container of n entries, each an image of one of the three formats.
ImageContainer(n) == File(BuildContainer([k \in 1..n |-> CoverBytes(k)]))

\* The viewer is about to be opened on 1..MaxPaths containers of 0..MaxLen
\* images each.
InitProgress ==
  /\ disk \in UNION {[1..n -> {ImageContainer(k) : k \in 0..MaxLen}] :
                      n \in 1..MaxPaths}
  /\ overflow_checks \in BOOLEAN
  /\ paths_data = [i \in 1..Len(disk) |-> i]
  /\ Unconstructed
  /\ NoSelector
  /\ NoFrame
  /\ AllDecodable

\* The viewer is opened; keys move it and switch the progress display, and
\* frames are drawn in between.
NextProgress ==
  \/ New /\ UNCHANGED calls
  \/ NextImage /\ UNCHANGED calls
  \/ PreviousImage /\ UNCHANGED calls
  \/ NextFile /\ UNCHANGED calls
  \/ PreviousFile /\ UNCHANGED calls
  \/ ToggleProgressDisplay /\ UNCHANGED calls
  \/ RenderFrame /\ UNCHANGED calls

SpecProgress == InitProgress /\ [][NextProgress]_vars

\* The program starts in the selector, over 1..MaxPaths paths, each a
\* container of MaxEntries entries or with no file, none selected.
InitEvents ==
  /\ disk \in UNION {[1..n -> {NavContainer(MaxEntries), NoSuchFile}] :
                      n \in 1..MaxPaths}
  /\ ofcs = [i \in 1..Len(disk) |-> Ofc(i, FALSE)]
  /\ toggles = [i \in 1..Len(disk) |-> 0]
  /\ page_index = 0
  /\ overflow_checks \in BOOLEAN
  /\ paths_data = <<>>
  /\ Unconstructed
  /\ NoFrame
  /\ AllDecodable

\* The keys and mouse buttons of main.rs and their handling.
NextEvents ==
  \/ NextEvent
  \/ KeyboardInput
  \/ MouseInput

SpecEvents == InitEvents /\ [][NextEvents]_vars

\* The files at the one path of a grid whose cover is loaded: every file of
\* AllFiles, and a container whose cover decodes.
CoverLoaderFiles == AllFiles \cup {CoverFile(1, "good")}

\* The selector is shown over one path, whose file is any of those, and no
\* frame has been drawn yet.
InitCover ==
  /\ disk \in {<<f>> : f \in CoverLoaderFiles}
  /\ ofcs = <<Ofc(1, FALSE)>>
  /\ toggles = <<0>>
  /\ page_index = 0
  /\ overflow_checks \in BOOLEAN
  /\ paths_data = <<>>
  /\ Unconstructed
  /\ NoFrame
  /\ AllDecodable

SpecCover == InitCover /\ [][NextRender]_vars

(***************************************************************************)
(* Navigation: invariants and transition rules (C1 - C4, C7, C8).          *)
(***************************************************************************)
\* The last call was one of the four navigation operations.
NavOps == {"next_image", "previous_image", "next_file", "previous_file"}

\* The open container is the one FileContainer::open gives for paths[i].
OpenIsFor(c, i) ==
  /\ c.path = PathAt(i)
  /\ OpenAt(i).ok
  /\ c.end_offsets = OpenAt(i).file.end_offsets

\* A call that was made on a running viewer and returned.
Returned(name) == status = "running" /\ op' = name /\ status' = "running"

\* C1: while the viewer runs, 0 <= container_index < paths.len(),
\* 0 <= entry_index < len of the open container, and the open container is
\* the one for paths[container_index], whatever the containers' lengths.
C1_NavigationInvariant ==
  status = "running" =>
    /\ paths_index \in 0..(Len(paths_data) - 1)
    /\ cf_index \in 0..(len(cf_file) - 1)
    /\ OpenIsFor(cf_file, paths_index)

\* C2: a navigation call in which opening the target archive fails leaves
\* container_index, entry_index and the open container as they were, and the
\* viewer keeps running (the failure goes to the caller).
C2_AtomicOnOpenFailure ==
  [][(status = "running" /\ op' \in NavOps /\ panic' = "open") =>
       /\ paths_index' = paths_index
       /\ cf_index' = cf_index
       /\ cf_file' = cf_file
       /\ status' = "running"]_vars

\* C3: a next_image call that returns has followed the rule, evaluated in
\* integers: entry_index < len - 1 increments entry_index only; otherwise
\* container_index < paths.len() - 1 opens the next container at entry 0;
\* otherwise nothing changes.
C3_NextImageRule ==
  [][Returned("next_image") =>
       IF cf_index < len(cf_file) - 1
       THEN /\ cf_index' = cf_index + 1
            /\ UNCHANGED <<paths_data, paths_index, cf_file, show_progress>>
       ELSE IF paths_index < Len(paths_data) - 1
       THEN /\ paths_index' = paths_index + 1
            /\ OpenIsFor(cf_file', paths_index + 1)
            /\ cf_index' = 0
            /\ UNCHANGED <<paths_data, show_progress>>
       ELSE UNCHANGED progVars]_vars

\* C4: a previous_image call that returns has followed the rule: entry_index
\* > 0 decrements entry_index only; otherwise container_index > 0 opens the
\* previous container at its last entry, new_len - 1; otherwise nothing
\* changes.
C4_PreviousImageRule ==
  [][Returned("previous_image") =>
       IF cf_index > 0
       THEN /\ cf_index' = cf_index - 1
            /\ UNCHANGED <<paths_data, paths_index, cf_file, show_progress>>
       ELSE IF paths_index > 0
       THEN /\ paths_index' = paths_index - 1
            /\ OpenIsFor(cf_file', paths_index - 1)
            /\ cf_index' = len(cf_file') - 1
            /\ UNCHANGED <<paths_data, show_progress>>
       ELSE UNCHANGED progVars]_vars

\* The direction a container jump moves container_index in.
JumpDirection(name) == IF name = "next_file" THEN -1 ELSE 1

\* C7: a container jump that returns has either moved container_index by
\* exactly one, opened that container and set entry_index to 0, or, with
\* container_index at the end it moves towards, changed nothing.
C7_JumpRule ==
  [][\A name \in {"next_file", "previous_file"} :
       Returned(name) =>
         LET target == paths_index + JumpDirection(name) IN
         IF target \in 0..(Len(paths_data) - 1)
         THEN /\ paths_index' = target
              /\ OpenIsFor(cf_file', target)
              /\ cf_index' = 0
              /\ UNCHANGED <<paths_data, show_progress>>
         ELSE UNCHANGED progVars]_vars

\* C7's case: a jump from a non-zero entry_index moved to the neighbouring
\* container and reset entry_index to 0.
C7_Witness ==
  /\ status = "running"
  /\ op \in {"next_file", "previous_file"}
  /\ pre[2] > 0
  /\ paths_index # pre[1]
  /\ cf_index = 0

\* C8: next_file decreases container_index by one (nothing at 0) and
\* previous_file increases it by one (nothing at paths.len() - 1): the
\* directions are swapped relative to the names.
C8_SwappedDirections ==
  [][/\ (status = "running" /\ op' = "next_file") =>
          paths_index' = IF paths_index = 0 THEN 0 ELSE paths_index - 1
     /\ (status = "running" /\ op' = "previous_file") =>
          paths_index' = IF paths_index = Len(paths_data) - 1
                         THEN paths_index ELSE paths_index + 1]_vars

\* C8's case: next_file has moved to a lower container_index.
C8_Witness ==
  /\ status = "running"
  /\ op = "next_file"
  /\ paths_index = pre[1] - 1

(***************************************************************************)
(* Traversals (C5, C6).                                                    *)
(***************************************************************************)
\* The viewer is at a position of its path list: an entry of the container
\* open for paths[container_index].
AtValidPosition ==
  /\ status = "running"
  /\ paths_index \in 0..(Len(paths_data) - 1)
  /\ OpenIsFor(cf_file, paths_index)
  /\ cf_index \in 0..(len(cf_file) - 1)

Max(a, b) == IF a > b THEN a ELSE b

\* C5: over containers of at least one entry each, k next_image calls from
\* (0, 0) lead to the k-th position in lexicographic order, so to the last
\* entry of the last container after (total entries - 1) calls; further calls
\* stay there.
C5_ForwardTraversal ==
  op # "init" =>
    /\ AtValidPosition
    /\ FlatPosition(paths_index, cf_index) = Min(calls, TotalEntries - 1)

\* C5's case: containers of 3 and 2 entries, five next_image calls made, the
\* viewer at (1, 1).
C5_Witness ==
  /\ Len(disk) = 2
  /\ len(OpenAt(0).file) = 3
  /\ len(OpenAt(1).file) = 2
  /\ op = "next_image"
  /\ calls = 5
  /\ paths_index = 1
  /\ cf_index = 1

\* C6: over containers of at least one entry each, k previous_image calls
\* from the last entry of the last container lead to the k-th position in
\* reverse lexicographic order, so to (0, 0) after (total entries - 1) calls;
\* further calls stay there.
C6_BackwardTraversal ==
  op # "init" =>
    /\ AtValidPosition
    /\ calls > 0 =>
         FlatPosition(paths_index, cf_index) = Max(TotalEntries - 1 - calls, 0)

\* C6's case: containers of 3 and 2 entries, five previous_image calls made
\* from (1, 1), the viewer at (0, 0).
C6_Witness ==
  /\ Len(disk) = 2
  /\ len(OpenAt(0).file) = 3
  /\ len(OpenAt(1).file) = 2
  /\ op = "previous_image"
  /\ calls = 5
  /\ paths_index = 0
  /\ cf_index = 0

(***************************************************************************)
(* The container reader (C9, C10).                                         *)
(***************************************************************************)
\* The bytes of the file the open container's handle is on.
OpenBytes == disk[cf_file.path].bytes

\* C9: for a container file built from entries of sizes s0..s(N-1), len() is
\* N, read_at(i) gives exactly entry i wherever the handle's cursor was left
\* by the reads before, current_image_bytes has returned the current entry,
\* and read_at(0), ..., read_at(N-1) concatenated are the payload.
C9_RoundTrip ==
  \A sizes \in SizeSeqs(MaxEntries, MaxEntrySize) :
    (/\ status = "running"
     /\ Len(OpenBytes) = 8 + 8 * Len(sizes) + Sum(sizes)
     /\ OpenBytes = BuildFile(sizes)) =>
      LET N == Len(sizes)
          reads == [i \in 1..N |-> read_at(cf_file, OpenBytes, i - 1)]
      IN /\ len(cf_file) = N
         /\ \A i \in 1..N :
              /\ reads[i].ok
              /\ Len(reads[i].buf) = sizes[i]
              /\ reads[i].buf = Entries(sizes)[i]
         /\ Flatten([i \in 1..N |-> reads[i].buf])
              = SubSeq(OpenBytes, 8 + 8 * N + 1, Len(OpenBytes))
         /\ op = "current_image_bytes" => out = Entries(sizes)[cf_index + 1]

\* C9's case: entry 0 (2 bytes) was read when an earlier read of entry 1 had
\* left the handle's cursor at the end of the file.
C9_Witness ==
  /\ status = "running"
  /\ OpenBytes = BuildFile(<<2, 1>>)
  /\ op = "current_image_bytes"
  /\ pre[3] = Len(OpenBytes)
  /\ cf_index = 0
  /\ out = <<1, 2>>

\* C10: open fails, and no container is made, for a file shorter than 8
\* bytes, with a wrong magic, or with fewer than 8 * N bytes after the 8-byte
\* prefix; for every other file it gives a container of the declared N
\* entries.
C10_OpenOutcome ==
  (op = "new" /\ disk[1].exists) =>
    LET b == disk[1].bytes
        short == Len(b) < 8
        bad_magic == ~short /\ SubSeq(b, 1, 4) # MAGIC
        N == IF short THEN 0 ELSE from_le_bytes(SubSeq(b, 5, 8))
        short_table == ~short /\ Len(b) - 8 < 8 * N
    IN IF short \/ bad_magic \/ short_table
       THEN status = "panicked" /\ panic = "open" /\ cf_file = NoContainer
       ELSE status = "running" /\ len(cf_file) = N

\* C10's case: a file with the right magic that declares 2 entries and holds
\* only one of the two table slots made open fail.
C10_Witness ==
  /\ op = "new"
  /\ status = "panicked"
  /\ Len(disk[1].bytes) = 16
  /\ SubSeq(disk[1].bytes, 1, 4) = MAGIC
  /\ from_le_bytes(SubSeq(disk[1].bytes, 5, 8)) = 2

(***************************************************************************)
(* The grid: pages and clicks (C11 - C13).                                 *)
(***************************************************************************)
\* The number of pages of the grid, ceil(total / 12), in integers.
PagesOf(total) == (total + 11) \div 12

\* C11: while the selector is shown, 0 <= page_index < ceil(total / page_size)
\* with page_size = 12; a next_page call on the last page and a previous_page
\* call on page 0 leave page_index as it is, any other such call moves it by
\* exactly +1 (-1), and a click does not move it.
C11_PageIndexRule ==
  /\ [](status = "init" =>
          /\ page_size = 12
          /\ page_index \in 0..(PagesOf(Len(ofcs)) - 1))
  /\ [][/\ (Selecting /\ op' = "next_page") =>
            page_index' = IF page_index = PagesOf(Len(ofcs)) - 1
                          THEN page_index ELSE page_index + 1
        /\ (Selecting /\ op' = "previous_page") =>
            page_index' = IF page_index = 0
                          THEN page_index ELSE page_index - 1
        /\ (Selecting /\ op' = "on_click") => page_index' = page_index]_vars

\* C11's case: 13 entries make two pages, and a next_page call has returned
\* with page_index 1, the last page.
C11_Witness ==
  /\ Len(ofcs) = 13
  /\ op = "next_page"
  /\ page_index = 1

\* The entries at flat indices first .. last - 1 (0-based) of o.
EntriesBetween(o, first, last) == [i \in 1..(last - first) |-> o[first + i]]

\* C12: while the selector is shown, current_page() is exactly the entries at
\* flat indices [page_index * 12, min(total, (page_index + 1) * 12)), between
\* 1 and 12 of them; and the pages at all valid page indices, one after the
\* other, are the whole list, so each entry is on exactly one page.
C12_PagePartition ==
  status = "init" =>
    LET total == Len(ofcs)
        PageAt(p) == current_page(ofcs, p)
        pages == [k \in 1..PagesOf(total) |-> PageAt(k - 1)]
    IN /\ current_page_in_range(ofcs, page_index)
       /\ \A p \in 0..(PagesOf(total) - 1) :
            /\ PageAt(p) = EntriesBetween(ofcs, p * 12,
                                          Min(total, (p + 1) * 12))
            /\ Len(PageAt(p)) \in 1..12
       /\ page_index \in 0..(PagesOf(total) - 1)
       /\ Flatten(pages) = ofcs
       /\ \A i, j \in 1..total : i # j => ofcs[i].path # ofcs[j].path

\* C12's case: 13 entries, and the page shown is the second one, which holds
\* the last entry alone.
C12_Witness ==
  /\ status = "init"
  /\ Len(ofcs) = 13
  /\ page_index = 1
  /\ current_page(ofcs, page_index) = <<ofcs[13]>>

\* C13: a click at (x, y) in a W x H viewport flips the flag of exactly the
\* entry at flat_index = page_index * 12 + row * 4 + col, where
\* col = floor(x / W * 4) and row = floor(y / H * 3), when that index is one
\* of the list, and changes nothing otherwise; no other flag and no path
\* changes (page_index is not the click's to change: C11).
C13_ClickRule ==
  status = "init" =>
    \A c \in Clicks :
      LET col == (c[1] * 4) \div c[3]
          row == (c[2] * 3) \div c[4]
          flat_index == page_index * 12 + row * 4 + col
          after == on_click(ofcs, page_index, c[1], c[2], c[3], c[4])
      IN IF flat_index \in 0..(Len(ofcs) - 1)
         THEN after = [ofcs EXCEPT ![flat_index + 1].selected = ~@]
         ELSE after = ofcs

(***************************************************************************)
(* From the selector to the viewer (C14, C15).                             *)
(***************************************************************************)
\* The paths of the entries clicked an odd number of times, in list order.
OddToggled ==
  LET all == [i \in 1..Len(ofcs) |-> i]
      odd == SelectSeq(all, LAMBDA i : toggles[i] % 2 = 1)
  IN [k \in 1..Len(odd) |-> ofcs[odd[k]].path]

\* C14: when entering the viewer succeeds, the viewer's path list is exactly
\* the paths of the selected entries - those clicked an odd number of times,
\* whatever the order of the clicks - in the order of the original list, and
\* it starts at container_index 0 and entry_index 0 with that container open.
C14_ViewerOverSelection ==
  [][(Selecting /\ op' = "new" /\ status' = "running") =>
       /\ paths_data' = OddToggled
       /\ paths_index' = 0
       /\ cf_index' = 0
       /\ cf_file'.path = OddToggled[1]]_vars

\* C14's case: entries 2 and 6 of the list were clicked once each and the
\* viewer was entered: it runs over paths 2 and 6, at the first of them.
C14_Witness ==
  /\ status = "running"
  /\ op = "new"
  /\ paths_data = <<2, 6>>
  /\ paths_index = 0
  /\ toggles[2] = 1
  /\ toggles[6] = 1

\* C15: entering the viewer with nothing selected neither constructs a viewer
\* over an empty path list nor fails on paths[0] of an empty list.
C15_EmptySelectionGuarded ==
  /\ ~(op = "new" /\ status = "panicked" /\ panic = "bounds")
  /\ (status = "running" => paths_data # <<>>)

(***************************************************************************)
(* The selector's render pass (C16 - C18, C20).                            *)
(***************************************************************************)
\* The page the frame under way, or the frame last drawn, is of.
FramePage == current_page(ofcs, page_index)

\* A frame is under way or has just ended, so that handles, decoded_images
\* and cells are those of the current page.
FrameOfPage ==
  \/ phase \in {"spawning", "joining", "unwinding", "drawing", "aborted"}
  \/ phase = "idle" /\ op = "render_frame"

\* The image a worker makes of the i-th entry of the page.
CoverOf(i) == cover(disk[FramePage[i].path], codec_rejects)

\* C16: a render pass spawns exactly one worker per entry of the current
\* page, in page order and so at most 12, and no cell of the frame is drawn
\* while a worker of its batch is still running.
C16_JoinBarrier ==
  /\ FrameOfPage =>
       /\ Len(handles) <= Len(FramePage)
       /\ Len(handles) <= 12
       /\ \A i \in 1..Len(handles) : handles[i].path = FramePage[i].path
       /\ phase # "spawning" => Len(handles) = Len(FramePage)
  /\ cells # <<>> => \A i \in 1..Len(handles) : handles[i].done

\* C16's case: a page of 12 entries, 12 workers, and the first cell drawn.
C16_Witness ==
  /\ phase = "drawing"
  /\ Len(handles) = 12
  /\ Len(cells) = 1

\* C17: the i-th image collected is the decoded cover of the i-th entry of
\* the page, and cell i, at row i div 4 and column i mod 4, is drawn with
\* that image and with the selection overlay of that entry.
C17_ResultOrder ==
  FrameOfPage =>
    /\ \A i \in 1..Len(decoded_images) :
         /\ CoverOf(i).ok
         /\ decoded_images[i] = CoverOf(i).image
         /\ decoded_images[i].bytes = CoverBytes(FramePage[i].path)
    /\ \A i \in 1..Len(cells) :
         /\ cells[i].row = (i - 1) \div 4
         /\ cells[i].column = (i - 1) % 4
         /\ cells[i].image = CoverOf(i).image
         /\ cells[i].overlay = FramePage[i].selected

\* C17's case: a frame of three cells is complete; the second cell, at row 0
\* and column 1, shows the cover of path 2 under the selection overlay.
C17_Witness ==
  /\ phase = "idle"
  /\ op = "render_frame"
  /\ Len(cells) = 3
  /\ cells[2] = [row |-> 0, column |-> 1, overlay |-> TRUE,
                 image |-> DecodedImage("webp", CoverBytes(2))]
  /\ cells[3].overlay = FALSE

\* C18: when the worker of any entry of the page fails (no file, a short
\* file, a cover of no known format, a cover its codec fails on), the frame
\* draws no cell, not even of an entry whose worker succeeded, and it ends
\* only with the panic leaving the render pass.
C18_WorkerFailureFatal ==
  (FrameOfPage /\ \E i \in 1..Len(FramePage) : ~CoverOf(i).ok) =>
    /\ cells = <<>>
    /\ phase \in {"spawning", "joining", "unwinding", "aborted"}
    /\ phase = "aborted" => (status = "panicked" /\ panic = "worker")

\* C18's case: of three workers the first two succeeded and their images
\* were collected, the third failed; the pass was aborted with no cell drawn.
C18_Witness ==
  /\ phase = "aborted"
  /\ status = "panicked"
  /\ Len(handles) = 3
  /\ Len(decoded_images) = 2
  /\ cells = <<>>

\* C20: when the render pass has its images, returns or is aborted, every
\* worker of its batch has finished, also when one of them failed; and a
\* frame begins with no worker left from the one before and spawns its
\* workers for the entries of the page current then.
C20_BatchJoinedBeforeExit ==
  /\ [](phase \in {"drawing", "idle", "aborted"} =>
          \A i \in 1..Len(handles) : handles[i].done)
  /\ [](phase \in {"spawning", "joining", "unwinding"} =>
          \A i \in 1..Len(handles) :
            /\ i <= Len(FramePage)
            /\ handles[i].path = FramePage[i].path)
  /\ [][(phase = "idle" /\ phase' # "idle") =>
          (handles' = <<>> /\ frames' = frames + 1)]_vars

\* C20's case: the second frame, begun after a page change, spawned its one
\* worker for the second page; that worker failed, and the pass was aborted
\* with the worker finished.
C20_Witness ==
  /\ phase = "aborted"
  /\ frames = 2
  /\ page_index = 1
  /\ Len(handles) = 1
  /\ handles[1] = Handle(13, TRUE)

(***************************************************************************)
(* Format classification (C19).                                            *)
(***************************************************************************)
\* bytes holds pat at offset at, all of it inside bytes.
HasAt(bytes, at, pat) ==
  /\ Len(bytes) >= at + Len(pat)
  /\ SubSeq(bytes, at + 1, at + Len(pat)) = pat

\* The format by the rule: JPEG by FF D8 FF, else PNG by its 8-byte
\* signature, else WebP if the buffer has at least atLeast bytes, RIFF at
\* offset 0 and WEBPVP at offset 8, else unsupported.
FormatByRule(bytes, atLeast) ==
  IF HasAt(bytes, 0, <<255, 216, 255>>) THEN "jpeg"
  ELSE IF HasAt(bytes, 0, <<137, 80, 78, 71, 13, 10, 26, 10>>) THEN "png"
  ELSE IF /\ Len(bytes) >= atLeast
          /\ HasAt(bytes, 0, <<82, 73, 70, 70>>)
          /\ HasAt(bytes, 8, <<87, 69, 66, 80, 86, 80>>)
  THEN "webp"
  ELSE "unsupported"

\* What the frame drawn last came to: the format the image was decoded as,
\* or the panic.
FrameOutcome == IF status = "running" THEN image.format ELSE panic

\* C19 as stated: the frame's bytes are classified by the rule with WebP
\* needing bytes 0..13, so 14 bytes or more; an unsupported buffer fails as
\* such, never by a read past its end.
C19_FormatRule ==
  (op = "render_frame" /\ panic # "read") =>
    FrameOutcome = FormatByRule(out, 14)

\* C19, amended: the same with WebP needing more than 14 bytes: a buffer of
\* exactly the 14 bytes RIFF....WEBPVP is unsupported.
C19_FormatRuleOver14 ==
  (op = "render_frame" /\ panic # "read") =>
    FrameOutcome = FormatByRule(out, 15)

\* C19's case: a frame over the 7 bytes RIFF 00 00 00 failed as unsupported.
C19_Witness ==
  /\ op = "render_frame"
  /\ out = <<82, 73, 70, 70, 0, 0, 0>>
  /\ status = "panicked"
  /\ panic = "unsupported"

(***************************************************************************)
(* The cover loader against the container reader (C21).                    *)
(***************************************************************************)
\* What the container reader comes to for entry 0 of the file f at path p,
\* FileContainer::open(p).read_at(0): [ok, buf].
ReaderCover(p, f) ==
  LET o == open(p, f)
      r == read_at(o.file, f.bytes, 0)
  IN IF o.ok /\ r.ok
     THEN [ok |-> TRUE, buf |-> r.buf]
     ELSE [ok |-> FALSE, buf |-> <<>>]

\* C21: the cover loader agrees with the container reader.  For the file of
\* every worker of decode_images that has run, load_image_bytes succeeds
\* exactly when open and read_at(0) both do, and then returns the same bytes.
C21_CoverLoaderAgrees ==
  \A i \in 1..Len(handles) :
    handles[i].done =>
      LET f == disk[handles[i].path]
          loaded == load_image_bytes(f)
          read == ReaderCover(handles[i].path, f)
      IN /\ loaded.ok = read.ok
         /\ loaded.ok => loaded.buf = read.buf

(***************************************************************************)
(* Clicks and the current page (C25).                                      *)
(***************************************************************************)
\* C25: a click never changes the selection of an entry that is not on the
\* current page.  In every on_click step, an entry whose flag differs after
\* the step has its flat index in
\* [page_index * page_size, (page_index + 1) * page_size).
C25_ClickStaysOnPage ==
  [][op' = "on_click" =>
       \A i \in 1..Len(ofcs) :
         ofcs'[i] # ofcs[i] =>
           /\ page_index * 12 <= i - 1
           /\ i - 1 < (page_index + 1) * 12]_vars

(***************************************************************************)
(* next_image and previous_image as inverses (C24).                        *)
(***************************************************************************)
\* The call before the last one was made at the last entry of the last
\* container.
PreAtGlobalEnd ==
  /\ pre[1] = Len(paths_data) - 1
  /\ pre[2] = len(OpenAt(pre[1]).file) - 1

\* This call leaves the viewer where it was before the last call: the same
\* indices, and the container of the same path with the same table.
RestoresPre ==
  /\ paths_index' = pre[1]
  /\ cf_index' = pre[2]
  /\ cf_file'.path = PathAt(pre[1])
  /\ cf_file'.end_offsets = OpenAt(pre[1]).file.end_offsets

\* C24: over containers of at least one entry each, next_image and
\* previous_image undo each other away from the global ends.  A
\* previous_image right after a next_image that was not called at the last
\* entry of the last container restores the position and the container; so
\* does a next_image right after a previous_image that was not called at
\* (0, 0).
C24_MutualInverses ==
  [][/\ (op = "next_image" /\ Returned("previous_image") /\ ~PreAtGlobalEnd)
          => RestoresPre
     /\ (op = "previous_image" /\ Returned("next_image")
            /\ <<pre[1], pre[2]>> # <<0, 0>>)
          => RestoresPre]_vars

\* C24's case: containers of 3 and 1 entries; next_image was called at
\* (0, 2) and went to (1, 0), and the previous_image after it is back at
\* (0, 2).
C24_Witness ==
  /\ Len(disk) = 2
  /\ len(OpenAt(0).file) = 3
  /\ calls = 2
  /\ op = "previous_image"
  /\ pre[1] = 1
  /\ pre[2] = 0
  /\ paths_index = 0
  /\ cf_index = 2
  /\ cf_file.path = 1

(***************************************************************************)
(* The progress indicator (C23).                                           *)
(***************************************************************************)
\* C23: no frame of the viewer divides by zero, whatever the containers it
\* was opened on (one of 0 entries included), and a frame drawn with the
\* progress display on shows floor(entry_index * 10 / len) markers of a
\* container with len > 0.
C23_ProgressDivision ==
  /\ panic # "division"
  /\ (op = "render_frame" /\ status = "running" /\ show_progress) =>
       /\ len(cf_file) > 0
       /\ progress * len(cf_file) <= cf_index * 10
       /\ cf_index * 10 < (progress + 1) * len(cf_file)

\* C23's case: the viewer is open on a container of 0 entries with the
\* progress display on, and the frame has ended in read_at's panic, before
\* render_progress.
C23_Witness ==
  /\ op = "render_frame"
  /\ show_progress
  /\ len(cf_file) = 0
  /\ cf_file.path = PathAt(paths_index)
  /\ status = "panicked"
  /\ panic = "read"

(***************************************************************************)
(* The lifetime of the containers (C22).                                   *)
(***************************************************************************)
\* The containers open in the navigation state: the one in
\* CurrentFile::file, and the one a call has opened and not yet stored.
ContainersOpen ==
  (IF cf_file # NoContainer THEN 1 ELSE 0)
    + (IF pending # NoContainer THEN 1 ELSE 0)

\* C22 as stated: at every point of navigation, inside a call that goes to
\* another archive included, at most one container is open.
C22_OneContainerOpen == ContainersOpen <= 1

\* C22, amended: between navigation calls exactly one container is open,
\* the one of Paths::index.  Inside a call that goes to another archive, the
\* new container is opened while the old one is still in the field, so the
\* two coexist (the old one of the archive the call left, the new one of
\* Paths::index) until the next step, the assignment, which drops the old
\* one and stores the new one.
C22_OneContainerBetweenCalls ==
  /\ [](status = "running" /\ pending = NoContainer =>
          ContainersOpen = 1 /\ cf_file.path = PathAt(paths_index))
  /\ [](pending # NoContainer =>
          /\ ContainersOpen = 2
          /\ pending.path = PathAt(paths_index)
          /\ cf_file.path = PathAt(pre[1])
          /\ cf_file.path # pending.path)
  /\ [][pending # NoContainer =>
          pending' = NoContainer /\ cf_file' = pending]_vars

\* C22's case: next_image has left the last entry of the container at
\* path 1 and opened the one at path 2, which is not stored yet.
C22_Witness ==
  /\ status = "running"
  /\ op = "next_image"
  /\ cf_file.path = 1
  /\ pending.path = 2
  /\ paths_index = 1

(***************************************************************************)
(* The two screens (C26).                                                  *)
(***************************************************************************)
\* The keys the viewer navigates with.
NavKeys == {"j", "k", "h", "l", "p"}

\* C26: the screen is the selector or the viewer, and the switch is one-way.
\* The viewer's Screen runs only with the viewer shown; the screen changes
\* only from Selector to Viewer, in the handling of Enter; the handling of
\* j, k, h, l or p in the selector changes nothing, and neither does that of
\* a mouse button in the viewer.
C26_OneWayModeSwitch ==
  /\ [](status = "running" => screen = "Viewer")
  /\ [](status = "init" => screen = "Selector")
  /\ [][(screen' # screen) =>
         (screen = "Selector" /\ screen' = "Viewer" /\ event = "Enter")]_vars
  /\ [][(screen = "Selector" /\ event \in NavKeys /\ event' = event) =>
         UNCHANGED vars]_vars
  /\ [][(screen = "Viewer" /\ event \in Buttons /\ event' = event) =>
         UNCHANGED vars]_vars

\* C26's case: Enter has opened the viewer on the two selected paths, j has
\* moved it to its second entry, and a click of the left button made there
\* is the event handled last.
C26_Witness ==
  /\ screen = "Viewer"
  /\ status = "running"
  /\ paths_data = <<1, 2>>
  /\ op = "next_image"
  /\ cf_index = 1
  /\ event = "Left"

====
